---- MODULE Spec2Model ----
(***************************************************************************)
(* A model of the prompt-builder UI: the PromptBuilder component           *)
(* (src/unnamed/part_000) and the PromptItem component                     *)
(* (src/src/components/panels/PromptItem.tsx).                             *)
(*                                                                         *)
(* Props are variables that only the parent changes; React state is a      *)
(* variable per useState; every callback prop invocation and every toast   *)
(* made by a step is recorded, in order, in `emitted`.                     *)
(***************************************************************************)
EXTENDS Integers, Sequences, FiniteSets, TLC

VARIABLES
    \* ---- props of PromptBuilder (owned by the parent) ----
    mainText,          \* the textarea's value, a sequence of characters
    generatedPrompt,   \* Null or Some(string)
    provided,          \* the optional callback props the parent supplied
    prefixesData,      \* [prefixes |-> sequence of fragments]
    suffixesData,      \* [suffixes |-> sequence of fragments]
    phasesConfig,      \* [phases |-> sequence of [id, name]]
    phasePromptsMap,   \* function: phase id -> [prompts |-> sequence of fragments]
    \* ---- the textarea DOM element behind textareaRef ----
    cursor,            \* selectionStart
    \* ---- state of PromptBuilder ----
    showGenerated,
    effectPending,     \* the [generatedPrompt] effect is scheduled and has not run
    showDropdown,
    dropdownType,
    dropdownPosition,
    inflight,          \* handler invocations suspended at their await
    \* ---- prop and state of one PromptItem ----
    prompt,            \* the fragment it displays
    isEditing,
    editText,
    showHistory,
    confirmRow,        \* row of the history list whose Confirm Restore dialog is open, 0 if none
    \* ---- observation ----
    lastOp,            \* the operation the last step performed, with its inputs
    emitted,           \* callback invocations and toasts of the last step, in order
    scenario           \* the part of the UI a behaviour exercises

vars == << mainText, generatedPrompt, provided, prefixesData, suffixesData,
           phasesConfig, phasePromptsMap, cursor, showGenerated, effectPending,
           showDropdown, dropdownType, dropdownPosition, inflight,
           prompt, isEditing, editText, showHistory, confirmRow,
           lastOp, emitted, scenario >>

propsData == << prefixesData, suffixesData, phasesConfig, phasePromptsMap, prompt >>
builderProps == << mainText, generatedPrompt, provided >>
dropdownState == << showDropdown, dropdownType, dropdownPosition >>
itemState == << isEditing, editText, showHistory, confirmRow >>

----------------------------------------------------------------------------
\* Bounds of the model.

MaxLen == 2            \* longest main text, in characters
MaxFragments == 4      \* longest prefix or suffix list
MaxPhasePrompts == 2   \* longest prompt list of a phase
MaxHistory == 2        \* longest history_log of the displayed prompt
MaxInFlight == 2       \* handler invocations awaiting their callback at once

----------------------------------------------------------------------------
\* Values.

Newline == "\n"
Chars == {"a", Newline}

Null == << >>
Some(s) == << s >>

Min(a, b) == IF a < b THEN a ELSE b

MutRemoveAt(seq, i) == SubSeq(seq, 1, Len(seq) - 1)

\* A sequence without its i-th element.
RemoveAt(seq, i) == SubSeq(seq, 1, i - 1) \o SubSeq(seq, i + 1, Len(seq))

Texts == UNION { [1..n -> Chars] : n \in 0..MaxLen }

Keys == {"/", "#", "$", "@", "Enter", "t", "a"}

Call(fn, args) == [fn |-> fn, args |-> args]

\* `cb?.(...)` / `if (cb) cb(...)`: the call is made only when the prop is given.
OptionalCall(fn, args) == IF fn \in provided THEN << Call(fn, args) >> ELSE << >>

Op(name, args) == [op |-> name, args |-> args]

Fragment(id, text, deprecated) == [id |-> id, text |-> text, deprecated |-> deprecated]

----------------------------------------------------------------------------
\* handleKeyDown (PromptBuilder).

\* String.prototype.charAt with a 0-based index: "" outside the string.
CharAt(value, index) ==
    IF index >= 0 /\ index < Len(value) THEN value[index + 1] ELSE ""

MutAtLineStart(value, selectionStart) == selectionStart = 0

\* The test that guards the dropdown triggers.
AtLineStart(value, selectionStart) ==
    \/ selectionStart = 0
    \/ CharAt(value, selectionStart - 1) = Newline

MutKeyDownBranch(key, ctrlKey, value, selectionStart) ==
    IF AtLineStart(value, selectionStart) THEN "trigger"
    ELSE IF ctrlKey /\ key = "Enter" THEN "generate"
    ELSE IF ctrlKey /\ key = "t" THEN "tidy"
    ELSE "none"

\* The if / else-if chain of handleKeyDown.
KeyDownBranch(key, ctrlKey, value, selectionStart) ==
    IF ctrlKey /\ key = "Enter" THEN "generate"
    ELSE IF ctrlKey /\ key = "t" THEN "tidy"
    ELSE IF AtLineStart(value, selectionStart) THEN "trigger"
    ELSE "none"

\* The key-to-type chain inside the trigger branch; "none" when no arm matches.
TriggerType(key) ==
    IF key = "/" THEN "all"
    ELSE IF key = "#" THEN "phase"
    ELSE IF key = "$" THEN "prefix"
    ELSE IF key = "@" THEN "suffix"
    ELSE "none"

\* String.prototype.split("\n") on a sequence of characters.
RECURSIVE Split(_)
Split(s) ==
    IF s = << >> THEN << << >> >>
    ELSE LET rest == Split(Tail(s))
         IN  IF Head(s) = Newline
             THEN << << >> >> \o rest
             ELSE << << Head(s) >> \o Head(rest) >> \o Tail(rest)

lineHeight == 24
charWidth == 8

MutDropdownPositionAt(value, selectionStart) ==
    LET lines == Split(value)
        currentLineIndex == Len(lines) - 1
    IN  [top  |-> currentLineIndex * lineHeight + 30,
         left |-> Len(lines[currentLineIndex + 1]) * charWidth + 10]

\* The position handleDropdownTrigger computes from the textarea.
DropdownPositionAt(value, selectionStart) ==
    LET text == SubSeq(value, 1, selectionStart)
        lines == Split(text)
        currentLineIndex == Len(lines) - 1
    IN  [top  |-> currentLineIndex * lineHeight + 30,
         left |-> Len(lines[currentLineIndex + 1]) * charWidth + 10]

\* A keydown event on the main textarea. tHeld tells whether the T key is
\* down when the event fires; the event object does not carry it, and the
\* model varies it only where a chord with T is in question: with Enter.
HandleKeyDown(key, ctrlKey, tHeld) ==
    LET branch == KeyDownBranch(key, ctrlKey, mainText, cursor)
        type == TriggerType(key)
    IN  /\ tHeld = IF key = "Enter" THEN tHeld ELSE (key = "t")
        /\ emitted' = IF branch = "generate" THEN OptionalCall("onGenerate", << >>)
                      ELSE IF branch = "tidy" THEN OptionalCall("onTidyAndGenerate", << >>)
                      ELSE << >>
        /\ IF branch = "trigger" /\ type # "none"
           THEN /\ dropdownPosition' = DropdownPositionAt(mainText, cursor)
                /\ dropdownType' = type
                /\ showDropdown' = TRUE
           ELSE UNCHANGED dropdownState
        /\ lastOp' = Op("handleKeyDown", << key, ctrlKey, tHeld >>)
        /\ UNCHANGED << builderProps, propsData, cursor, showGenerated, effectPending,
                        inflight, itemState, scenario >>

\* The user moves the caret of the main textarea.
MoveCursor(pos) ==
    /\ pos \in 0..Len(mainText)
    /\ pos # cursor
    /\ cursor' = pos
    /\ lastOp' = Op("moveCursor", << pos >>)
    /\ emitted' = << >>
    /\ UNCHANGED << builderProps, propsData, showGenerated, effectPending,
                    dropdownState, inflight, itemState, scenario >>

\* The values one keystroke at the caret can give the textarea: a character
\* typed there, or the character before the caret deleted.
TypedEdits(value, selectionStart) ==
       { SubSeq(value, 1, selectionStart) \o << c >> \o SubSeq(value, selectionStart + 1, Len(value)) :
           c \in IF Len(value) < MaxLen THEN Chars ELSE {} }
    \cup { RemoveAt(value, selectionStart) : x \in IF selectionStart > 0 THEN {0} ELSE {} }

\* onChange of the main textarea: the edited value goes to onMainTextChange.
MainTextChange(text) ==
    /\ emitted' = << Call("onMainTextChange", << text >>) >>
    /\ lastOp' = Op("mainTextChange", << text >>)
    /\ UNCHANGED << builderProps, propsData, cursor, showGenerated, effectPending,
                    dropdownState, inflight, itemState, scenario >>

\* The parent re-renders PromptBuilder with another mainText; the caret of the
\* controlled textarea lands somewhere in the new value.
ParentSetsMainText(text, pos) ==
    /\ text # mainText
    /\ pos \in 0..Len(text)
    /\ mainText' = text
    /\ cursor' = pos
    /\ lastOp' = Op("parentSetsMainText", << >>)
    /\ emitted' = << >>
    /\ UNCHANGED << generatedPrompt, provided, propsData, showGenerated, effectPending,
                    dropdownState, inflight, itemState, scenario >>

----------------------------------------------------------------------------
\* The showGenerated effect (PromptBuilder).

GeneratedPrompts == {Null, Some(""), Some("p")}

MutEffectShowGenerated(value) == value # Null /\ value # Some("")

\* The value the effect gives setShowGenerated.
EffectShowGenerated(value) == value # Null

\* The parent passes a new generatedPrompt; the dependency changed, so React
\* schedules the effect.
ParentSetsGeneratedPrompt(value) ==
    /\ value # generatedPrompt
    /\ generatedPrompt' = value
    /\ effectPending' = TRUE
    /\ lastOp' = Op("parentSetsGeneratedPrompt", << >>)
    /\ emitted' = << >>
    /\ UNCHANGED << mainText, provided, propsData, cursor, showGenerated,
                    dropdownState, inflight, itemState, scenario >>

\* React runs the effect: after mount, and after a change of generatedPrompt.
RunEffect ==
    /\ effectPending
    /\ showGenerated' = EffectShowGenerated(generatedPrompt)
    /\ effectPending' = FALSE
    /\ lastOp' = Op("effect", << >>)
    /\ emitted' = << >>
    /\ UNCHANGED << builderProps, propsData, cursor, dropdownState, inflight,
                    itemState, scenario >>

----------------------------------------------------------------------------
\* The shortcut dropdown (PromptBuilder).

MutNotDeprecated(list) == list

\* .filter((f) => !f.deprecated)
NotDeprecated(list) == SelectSeq(list, LAMBDA f : ~f.deprecated)

sliceEnd == 3

\* .slice(0, 3)
Slice(list) == SubSeq(list, 1, Min(sliceEnd, Len(list)))

\* One button of the dropdown: the arguments its onClick gives handleDropdownSelect.
\* A missing phaseId argument (undefined) is "".
Buttons(list, type, phaseId) ==
    [i \in 1..Len(list) |-> [item |-> list[i], type |-> type, phaseId |-> phaseId]]

\* phasePromptsMap[phase.id]?.prompts.filter(...).map(...)
PhaseButtons(phase) ==
    IF phase.id \in DOMAIN phasePromptsMap
    THEN Buttons(NotDeprecated(phasePromptsMap[phase.id].prompts), "phase", phase.id)
    ELSE << >>

\* phasesConfig.phases.map((phase) => ...), flattened in render order.
RECURSIVE AllPhaseButtons(_)
AllPhaseButtons(phases) ==
    IF phases = << >> THEN << >>
    ELSE PhaseButtons(Head(phases)) \o AllPhaseButtons(Tail(phases))

\* The buttons the ScrollArea renders for a dropdown type, top to bottom.
DropdownItems(type) ==
       (IF type = "prefix"
        THEN Buttons(NotDeprecated(prefixesData.prefixes), "prefix", "") ELSE << >>)
    \o (IF type = "suffix"
        THEN Buttons(NotDeprecated(suffixesData.suffixes), "suffix", "") ELSE << >>)
    \o (IF type = "phase" \/ type = "all"
        THEN AllPhaseButtons(phasesConfig.phases) ELSE << >>)
    \o (IF type = "all"
        THEN    Buttons(Slice(NotDeprecated(prefixesData.prefixes)), "prefix", "")
             \o Buttons(Slice(NotDeprecated(suffixesData.suffixes)), "suffix", "")
        ELSE << >>)

\* The callback handleDropdownSelect makes for a button.
SelectCalls(button) ==
    IF button.type = "prefix" /\ "onSelectPrefix" \in provided
    THEN << Call("onSelectPrefix", << button.item >>) >>
    ELSE IF button.type = "suffix" /\ "onSelectSuffix" \in provided
    THEN << Call("onSelectSuffix", << button.item >>) >>
    ELSE IF button.type = "phase" /\ "onSelectPhasePrompt" \in provided /\ button.phaseId # ""
    THEN << Call("onSelectPhasePrompt", << button.item, button.phaseId >>) >>
    ELSE << >>

\* The user clicks the i-th button of the open dropdown.
HandleDropdownSelect(i) ==
    /\ showDropdown
    /\ i \in 1..Len(DropdownItems(dropdownType))
    /\ showDropdown' = FALSE
    /\ emitted' = SelectCalls(DropdownItems(dropdownType)[i])
    /\ lastOp' = Op("handleDropdownSelect", << i >>)
    /\ UNCHANGED << builderProps, propsData, cursor, showGenerated, effectPending,
                    dropdownType, dropdownPosition, inflight, itemState, scenario >>

\* The Cancel button of the open dropdown.
DropdownCancel ==
    /\ showDropdown
    /\ showDropdown' = FALSE
    /\ emitted' = << >>
    /\ lastOp' = Op("dropdownCancel", << >>)
    /\ UNCHANGED << builderProps, propsData, cursor, showGenerated, effectPending,
                    dropdownType, dropdownPosition, inflight, itemState, scenario >>

----------------------------------------------------------------------------
\* The update and restore handlers (PromptBuilder).

UpdateHandlers == {"handleUpdatePrefix", "handleUpdateSuffix", "handleUpdatePhasePrompt"}
RestoreHandlers ==
    {"handleRestorePrefixVersion", "handleRestoreSuffixVersion",
     "handleRestorePhasePromptVersion"}
PhaseHandlers == {"handleUpdatePhasePrompt", "handleRestorePhasePromptVersion"}

NoEntry == [timestamp |-> 0, text |-> ""]

\* One invocation of a handler with its arguments. An update handler takes
\* newText and persistChange, a restore handler takes historyEntry; a phase
\* handler takes phaseId too. Arguments a handler does not take are blank.
Invocation(handler, phaseId, id, newText, persistChange, historyEntry) ==
    [handler |-> handler, phaseId |-> phaseId, id |-> id, newText |-> newText,
     persistChange |-> persistChange, historyEntry |-> historyEntry]

\* The callback prop a handler tests and awaits.
HandlerCallback(handler) ==
    IF handler \in {"handleUpdatePrefix", "handleRestorePrefixVersion"} THEN "onUpdatePrefix"
    ELSE IF handler \in {"handleUpdateSuffix", "handleRestoreSuffixVersion"} THEN "onUpdateSuffix"
    ELSE "onUpdatePhasePrompt"

\* The arguments the handler gives that callback.
CallbackArgs(inv) ==
    LET text == IF inv.handler \in RestoreHandlers THEN inv.historyEntry.text ELSE inv.newText
        persist == IF inv.handler \in RestoreHandlers THEN TRUE ELSE inv.persistChange
    IN  IF inv.handler \in PhaseHandlers
        THEN << inv.phaseId, inv.id, text, persist >>
        ELSE << inv.id, text, persist >>

MutSuccessMessage(handler, persistChange) ==
    IF handler = "handleUpdatePrefix"
    THEN (IF persistChange THEN "Prefix updated for the current session"
                           ELSE "Prefix updated and persisted")
    ELSE IF handler = "handleUpdateSuffix"
    THEN (IF persistChange THEN "Suffix updated for the current session"
                           ELSE "Suffix updated and persisted")
    ELSE IF handler = "handleUpdatePhasePrompt"
    THEN (IF persistChange THEN "Phase prompt updated for the current session"
                           ELSE "Phase prompt updated and persisted")
    ELSE IF handler = "handleRestorePrefixVersion" THEN "Restored previous version of prefix"
    ELSE IF handler = "handleRestoreSuffixVersion" THEN "Restored previous version of suffix"
    ELSE "Restored previous version of phase prompt"

\* The argument of toast.success.
SuccessMessage(handler, persistChange) ==
    IF handler = "handleUpdatePrefix"
    THEN (IF persistChange THEN "Prefix updated and persisted"
                           ELSE "Prefix updated for the current session")
    ELSE IF handler = "handleUpdateSuffix"
    THEN (IF persistChange THEN "Suffix updated and persisted"
                           ELSE "Suffix updated for the current session")
    ELSE IF handler = "handleUpdatePhasePrompt"
    THEN (IF persistChange THEN "Phase prompt updated and persisted"
                           ELSE "Phase prompt updated for the current session")
    ELSE IF handler = "handleRestorePrefixVersion" THEN "Restored previous version of prefix"
    ELSE IF handler = "handleRestoreSuffixVersion" THEN "Restored previous version of suffix"
    ELSE "Restored previous version of phase prompt"

\* The argument of the toast.error after the if.
FailedMessage(handler) ==
    IF handler = "handleUpdatePrefix" THEN "Failed to update prefix"
    ELSE IF handler = "handleUpdateSuffix" THEN "Failed to update suffix"
    ELSE IF handler = "handleUpdatePhasePrompt" THEN "Failed to update phase prompt"
    ELSE IF handler = "handleRestorePrefixVersion" THEN "Failed to restore prefix version"
    ELSE IF handler = "handleRestoreSuffixVersion" THEN "Failed to restore suffix version"
    ELSE "Failed to restore phase prompt version"

\* The argument of the toast.error in the catch block.
ErrorMessage(handler) ==
    IF handler = "handleUpdatePrefix" THEN "Error updating prefix"
    ELSE IF handler = "handleUpdateSuffix" THEN "Error updating suffix"
    ELSE IF handler = "handleUpdatePhasePrompt" THEN "Error updating phase prompt"
    ELSE IF handler = "handleRestorePrefixVersion" THEN "Error restoring prefix version"
    ELSE IF handler = "handleRestoreSuffixVersion" THEN "Error restoring suffix version"
    ELSE "Error restoring phase prompt version"

\* The async handler's own promise is fulfilled when its body returns; an
\* exception leaving the body would reject it instead.
Returned == Call("return", << "fulfilled" >>)

\* The catch block.
Caught(handler) ==
    << Call("console.error", << ErrorMessage(handler) >>),
       Call("toast.error", << ErrorMessage(handler) >>), Returned >>

\* What a handler does once its callback has settled: "true" and "false" are
\* the values the promise resolves to, "reject" a rejection.
AfterAwait(inv, outcome) ==
    IF outcome = "true"
    THEN << Call("toast.success", << SuccessMessage(inv.handler, inv.persistChange) >>), Returned >>
    ELSE IF outcome = "false"
    THEN << Call("toast.error", << FailedMessage(inv.handler) >>), Returned >>
    ELSE Caught(inv.handler)

Outcomes == {"true", "false", "reject"}

\* A panel calls a handler. Without the callback prop the handler runs to its
\* end at once; with it the callback is called, and either throws on the spot
\* or returns a promise at which the handler suspends.
InvokeHandler(inv, throws) ==
    LET callback == HandlerCallback(inv.handler)
    IN  /\ IF callback \notin provided
           THEN /\ ~throws
                /\ emitted' = << Call("toast.error", << FailedMessage(inv.handler) >>), Returned >>
                /\ UNCHANGED inflight
           ELSE IF throws
           THEN /\ emitted' = << Call(callback, CallbackArgs(inv)) >> \o Caught(inv.handler)
                /\ UNCHANGED inflight
           ELSE /\ Len(inflight) < MaxInFlight
                /\ emitted' = << Call(callback, CallbackArgs(inv)) >>
                /\ inflight' = Append(inflight, inv)
        /\ lastOp' = Op(inv.handler, << inv, throws >>)
        /\ UNCHANGED << builderProps, propsData, cursor, showGenerated, effectPending,
                        dropdownState, itemState, scenario >>

\* The promise of the i-th suspended invocation settles and the handler resumes.
Settle(i, outcome) ==
    /\ i \in 1..Len(inflight)
    /\ emitted' = AfterAwait(inflight[i], outcome)
    /\ inflight' = RemoveAt(inflight, i)
    /\ lastOp' = Op("settle", << inflight[i], outcome, i >>)
    /\ UNCHANGED << builderProps, propsData, cursor, showGenerated, effectPending,
                    dropdownState, itemState, scenario >>

----------------------------------------------------------------------------
\* PromptItem.

\* Array.prototype.sort with (a, b) => time(b) - time(a): stable, newest first.
RECURSIVE InsertNewestFirst(_, _)
InsertNewestFirst(entry, sorted) ==
    IF sorted = << >> THEN << entry >>
    ELSE IF Head(sorted).timestamp < entry.timestamp THEN << entry >> \o sorted
    ELSE << Head(sorted) >> \o InsertNewestFirst(entry, Tail(sorted))

RECURSIVE SortNewestFirst(_)
SortNewestFirst(log) ==
    IF log = << >> THEN << >>
    ELSE InsertNewestFirst(log[Len(log)], SortNewestFirst(SubSeq(log, 1, Len(log) - 1)))

MutHistoryLogAfterRender(log) == SortNewestFirst(log)

\* prompt.history_log after a render: the sort works on a copy ([...log]).
HistoryLogAfterRender(log) == log

\* const sortedHistory = [...prompt.history_log].sort(...)
sortedHistory == SortNewestFirst(prompt.history_log)

\* The entry the history dialog shows in a row (the rows are numbered from 1).
RowEntry(row) == sortedHistory[row]

MutConfirmEntry(row) == prompt.history_log[row]

\* The entry the row's Confirm button gives handleRestoreVersion.
ConfirmEntry(row) == RowEntry(row)

MutUpdateText == prompt.text

\* The text handleUpdate gives onUpdate.
UpdateText == editText

\* React renders PromptItem: sortedHistory is computed from the prop.
RenderItem ==
    /\ prompt' = [prompt EXCEPT !.history_log = HistoryLogAfterRender(@)]
    /\ UNCHANGED << prefixesData, suffixesData, phasesConfig, phasePromptsMap >>

\* A step of PromptItem ends with its re-render.
ItemStep(name, args) ==
    /\ RenderItem
    /\ lastOp' = Op(name, args)
    /\ UNCHANGED << builderProps, cursor, showGenerated, effectPending, dropdownState,
                    inflight, scenario >>

\* The pencil button.
HandleEdit ==
    /\ editText' = prompt.text
    /\ isEditing' = TRUE
    /\ emitted' = << >>
    /\ UNCHANGED << showHistory, confirmRow >>
    /\ ItemStep("handleEdit", << >>)

EditTexts == {"v0", "edited"}

\* onChange of the edit dialog's textarea.
EditTextChange(text) ==
    /\ isEditing
    /\ text # editText
    /\ editText' = text
    /\ emitted' = << >>
    /\ UNCHANGED << isEditing, showHistory, confirmRow >>
    /\ ItemStep("editTextChange", << text >>)

\* 'Update for Session' (persistChange false) and 'Persist Change' (true).
HandleUpdate(persistChange) ==
    /\ isEditing
    /\ emitted' = OptionalCall("onUpdate", << prompt.id, UpdateText, persistChange >>)
    /\ isEditing' = FALSE
    /\ UNCHANGED << editText, showHistory, confirmRow >>
    /\ ItemStep("handleUpdate", << persistChange >>)

\* The Cancel button of the edit dialog.
EditCancel ==
    /\ isEditing
    /\ isEditing' = FALSE
    /\ emitted' = << >>
    /\ UNCHANGED << editText, showHistory, confirmRow >>
    /\ ItemStep("editCancel", << >>)

\* The edit dialog is dismissed: onOpenChange={setIsEditing} gets false.
EditDismiss ==
    /\ isEditing
    /\ isEditing' = FALSE
    /\ emitted' = << >>
    /\ UNCHANGED << editText, showHistory, confirmRow >>
    /\ ItemStep("editDismiss", << >>)

\* The history button.
OpenHistory ==
    /\ ~showHistory
    /\ showHistory' = TRUE
    /\ emitted' = << >>
    /\ UNCHANGED << isEditing, editText, confirmRow >>
    /\ ItemStep("openHistory", << >>)

\* The history dialog is dismissed: onOpenChange={setShowHistory} gets false.
\* Its content unmounts, and the rows' own dialogs with it.
HistoryDismiss ==
    /\ showHistory
    /\ showHistory' = FALSE
    /\ confirmRow' = 0
    /\ emitted' = << >>
    /\ UNCHANGED << isEditing, editText >>
    /\ ItemStep("historyDismiss", << >>)

\* The Restore button of a row opens that row's Confirm Restore dialog.
OpenConfirm(row) ==
    /\ showHistory
    /\ confirmRow = 0
    /\ row \in 1..Len(sortedHistory)
    /\ confirmRow' = row
    /\ emitted' = << >>
    /\ UNCHANGED << isEditing, editText, showHistory >>
    /\ ItemStep("openConfirm", << row >>)

\* The Cancel button of the Confirm Restore dialog: onClick={() => {}}.
ConfirmCancel ==
    /\ confirmRow # 0
    /\ emitted' = << >>
    /\ UNCHANGED << isEditing, editText, showHistory, confirmRow >>
    /\ ItemStep("confirmCancel", << >>)

\* The Confirm Restore dialog is dismissed; it keeps its own open state.
ConfirmDismiss ==
    /\ confirmRow # 0
    /\ confirmRow' = 0
    /\ emitted' = << >>
    /\ UNCHANGED << isEditing, editText, showHistory >>
    /\ ItemStep("confirmDismiss", << >>)

\* The Confirm button of the Confirm Restore dialog.
HandleRestoreVersion ==
    /\ confirmRow # 0
    /\ emitted' = OptionalCall("onRestoreVersion", << prompt.id, ConfirmEntry(confirmRow) >>)
    /\ showHistory' = FALSE
    /\ confirmRow' = 0
    /\ UNCHANGED << isEditing, editText >>
    /\ ItemStep("handleRestoreVersion", << confirmRow >>)

\* The parent re-renders PromptItem with another text for the fragment, as
\* after an update it accepted.
ParentSetsPromptText(text) ==
    /\ text # prompt.text
    /\ prompt' = [prompt EXCEPT !.text = text]
    /\ lastOp' = Op("parentSetsPromptText", << >>)
    /\ emitted' = << >>
    /\ UNCHANGED << builderProps, prefixesData, suffixesData, phasesConfig, phasePromptsMap,
                    cursor, showGenerated, effectPending, dropdownState, inflight,
                    itemState, scenario >>

\* The plus button.
HandleSelect ==
    /\ emitted' = OptionalCall("onSelect", << prompt >>)
    /\ UNCHANGED << isEditing, editText, showHistory, confirmRow >>
    /\ ItemStep("handleSelect", << >>)

----------------------------------------------------------------------------
\* Construction.

\* A list of fragments with the given deprecated flags; ids are unique.
MkList(kind, flags) ==
    [i \in 1..Len(flags) |-> Fragment(<< kind, i >>, kind, flags[i])]

FlagLists(n) == UNION { [1..k -> BOOLEAN] : k \in 0..n }

HistoryEntry(timestamp, text) == [timestamp |-> timestamp, text |-> text]

OptionalCallbacks ==
    {"onGenerate", "onTidyAndGenerate", "onSelectPrefix", "onSelectSuffix",
     "onSelectPhasePrompt", "onUpdatePrefix", "onUpdateSuffix", "onUpdatePhasePrompt",
     "onRestorePrefix", "onRestoreSuffix", "onRestorePhasePrompt",
     "onSelect", "onUpdate", "onRestoreVersion"}

SamplePhases == [phases |-> << [id |-> "ph1", name |-> "One"], [id |-> "ph2", name |-> "Two"] >>]

SampleData ==
    /\ prefixesData = [prefixes |-> MkList("prefix", << FALSE, TRUE >>)]
    /\ suffixesData = [suffixes |-> MkList("suffix", << TRUE, FALSE >>)]
    /\ phasesConfig = SamplePhases
    /\ phasePromptsMap = [id \in {"ph2"} |-> [prompts |-> MkList(id, << FALSE >>)]]

SamplePrompt ==
    prompt = [id |-> << "prompt", 1 >>, text |-> "v2", deprecated |-> FALSE,
              history_log |-> << HistoryEntry(1, "v0"), HistoryEntry(2, "v1") >>]

\* PromptBuilder after its first render: the useState initial values, and the
\* mount run of the effect still to come.
BuilderConstructed ==
    /\ showGenerated = FALSE
    /\ effectPending = TRUE
    /\ showDropdown = FALSE
    /\ dropdownType = "all"
    /\ dropdownPosition = [top |-> 0, left |-> 0]
    /\ inflight = << >>

\* PromptItem after its first render.
ItemConstructed ==
    /\ isEditing = FALSE
    /\ editText = prompt.text
    /\ showHistory = FALSE
    /\ confirmRow = 0

Mounted ==
    /\ lastOp = Op("mount", << >>)
    /\ emitted = << >>

----------------------------------------------------------------------------
\* The main textarea, its shortcuts and the generated-prompt card.

InitKeys ==
    /\ scenario = "keys"
    /\ mainText \in Texts
    /\ cursor \in 0..Len(mainText)
    /\ generatedPrompt = Null
    /\ provided \in {OptionalCallbacks, OptionalCallbacks \ {"onGenerate", "onTidyAndGenerate"}}
    /\ SampleData
    /\ SamplePrompt
    /\ BuilderConstructed
    /\ ItemConstructed
    /\ Mounted

NextKeys ==
    \/ \E key \in Keys, ctrlKey \in BOOLEAN, tHeld \in BOOLEAN : HandleKeyDown(key, ctrlKey, tHeld)
    \/ \E pos \in 0..MaxLen : MoveCursor(pos)
    \/ \E text \in TypedEdits(mainText, cursor) : MainTextChange(text)
    \/ \E text \in Texts, pos \in 0..MaxLen : ParentSetsMainText(text, pos)
    \/ \E i \in 1..Len(DropdownItems(dropdownType)) : HandleDropdownSelect(i)
    \/ DropdownCancel
    \/ RunEffect

SpecKeys == InitKeys /\ [][NextKeys]_vars

----------------------------------------------------------------------------
\* The generated-prompt card: the parent changes generatedPrompt while the
\* user works the shortcuts on an empty main text.

InitGenerated ==
    /\ scenario = "generated"
    /\ mainText = << >>
    /\ cursor = 0
    /\ generatedPrompt \in GeneratedPrompts
    /\ provided = OptionalCallbacks
    /\ SampleData
    /\ SamplePrompt
    /\ BuilderConstructed
    /\ ItemConstructed
    /\ Mounted

NextGenerated ==
    \/ \E value \in GeneratedPrompts : ParentSetsGeneratedPrompt(value)
    \/ RunEffect
    \/ \E key \in Keys, ctrlKey \in BOOLEAN, tHeld \in BOOLEAN : HandleKeyDown(key, ctrlKey, tHeld)
    \/ \E i \in 1..Len(DropdownItems(dropdownType)) : HandleDropdownSelect(i)
    \/ DropdownCancel

SpecGenerated == InitGenerated /\ [][NextGenerated]_vars

----------------------------------------------------------------------------
\* The update and restore handlers, called by the panels.

SampleEntry == HistoryEntry(1, "v0")

Invocations ==
       { Invocation(h, IF h \in PhaseHandlers THEN "ph1" ELSE "", << "id", 1 >>, "new", p, NoEntry) :
           h \in UpdateHandlers, p \in BOOLEAN }
    \cup { Invocation(h, IF h \in PhaseHandlers THEN "ph1" ELSE "", << "id", 1 >>, "", FALSE, SampleEntry) :
           h \in RestoreHandlers }

InitHandlers ==
    /\ scenario = "handlers"
    /\ mainText = << >>
    /\ cursor = 0
    /\ generatedPrompt = Null
    /\ provided \in {OptionalCallbacks,
                      OptionalCallbacks \ {"onUpdatePrefix", "onUpdateSuffix", "onUpdatePhasePrompt"}}
    /\ SampleData
    /\ SamplePrompt
    /\ BuilderConstructed
    /\ ItemConstructed
    /\ Mounted

NextHandlers ==
    \/ \E inv \in Invocations, throws \in BOOLEAN : InvokeHandler(inv, throws)
    \/ \E i \in 1..MaxInFlight, outcome \in Outcomes : Settle(i, outcome)
    \/ RunEffect

SpecHandlers == InitHandlers /\ [][NextHandlers]_vars

----------------------------------------------------------------------------
\* One PromptItem.

VersionNames == << "v1", "v2", "v3", "v4", "v5" >>

\* The history logs: every order of timestamps 1 and 2, ties included; the
\* text of an entry tells its place in the log.
HistoryLogs ==
    UNION { { [i \in 1..n |-> HistoryEntry(ts[i], VersionNames[i])] :
        ts \in [1..n -> {1, 2}] } : n \in 0..MaxHistory }

InitItem ==
    /\ scenario = "item"
    /\ mainText = << >>
    /\ cursor = 0
    /\ generatedPrompt = Null
    /\ provided \in {OptionalCallbacks,
                      OptionalCallbacks \ {"onSelect", "onUpdate", "onRestoreVersion"}}
    /\ SampleData
    /\ \E log \in HistoryLogs :
           prompt = [id |-> << "prompt", 1 >>, text |-> "v0", deprecated |-> FALSE,
                     history_log |-> log]
    /\ BuilderConstructed
    /\ ItemConstructed
    /\ Mounted

NextItem ==
    \/ HandleEdit
    \/ \E text \in EditTexts : EditTextChange(text)
    \/ \E persistChange \in BOOLEAN : HandleUpdate(persistChange)
    \/ EditCancel
    \/ EditDismiss
    \/ OpenHistory
    \/ HistoryDismiss
    \/ \E row \in 1..MaxHistory : OpenConfirm(row)
    \/ ConfirmCancel
    \/ ConfirmDismiss
    \/ HandleRestoreVersion
    \/ HandleSelect
    \/ \E text \in EditTexts : ParentSetsPromptText(text)

SpecItem == InitItem /\ [][NextItem]_vars

----------------------------------------------------------------------------
\* The dropdown over varied fragment data: one list is varied at a time, the
\* others hold more than sliceEnd live fragments and a deprecated one.

LongFlags == << FALSE, TRUE, FALSE, FALSE, FALSE >>

PhaseOrders ==
    { << [id |-> "ph1", name |-> "One"], [id |-> "ph2", name |-> "Two"] >>,
      << [id |-> "ph2", name |-> "Two"], [id |-> "ph1", name |-> "One"] >>,
      << [id |-> "ph2", name |-> "Two"] >> }

PhaseMaps ==
    UNION { [ids -> { [prompts |-> MkList("phase", flags)] : flags \in FlagLists(MaxPhasePrompts) }] :
              ids \in SUBSET {"ph1", "ph2"} }

InitDropdown ==
    /\ scenario = "dropdown"
    /\ mainText = << >>
    /\ cursor = 0
    /\ generatedPrompt = Null
    /\ provided = OptionalCallbacks
    /\ \/ /\ \E flags \in FlagLists(MaxFragments) :
                 prefixesData = [prefixes |-> MkList("prefix", flags)]
          /\ suffixesData = [suffixes |-> MkList("suffix", LongFlags)]
          /\ phasesConfig = SamplePhases
          /\ phasePromptsMap = [id \in {"ph2"} |-> [prompts |-> MkList("phase", << FALSE >>)]]
       \/ /\ prefixesData = [prefixes |-> MkList("prefix", LongFlags)]
          /\ \E flags \in FlagLists(MaxFragments) :
                 suffixesData = [suffixes |-> MkList("suffix", flags)]
          /\ phasesConfig = SamplePhases
          /\ phasePromptsMap = [id \in {"ph2"} |-> [prompts |-> MkList("phase", << FALSE >>)]]
       \/ /\ prefixesData = [prefixes |-> MkList("prefix", LongFlags)]
          /\ suffixesData = [suffixes |-> MkList("suffix", LongFlags)]
          /\ \E phases \in PhaseOrders : phasesConfig = [phases |-> phases]
          /\ phasePromptsMap \in PhaseMaps
    /\ SamplePrompt
    /\ BuilderConstructed
    /\ ItemConstructed
    /\ Mounted

NextDropdown ==
    \/ \E key \in {"/", "#", "$", "@"} : HandleKeyDown(key, FALSE, FALSE)
    \/ \E i \in 1..Len(DropdownItems(dropdownType)) : HandleDropdownSelect(i)
    \/ DropdownCancel
    \/ RunEffect

SpecDropdown == InitDropdown /\ [][NextDropdown]_vars

----------------------------------------------------------------------------
\* Both components. PromptBuilder and PromptItem share no state, so a
\* behaviour follows one part of the UI from its construction.

Init == InitKeys \/ InitGenerated \/ InitHandlers \/ InitItem \/ InitDropdown

Next ==
    \/ scenario = "keys" /\ NextKeys
    \/ scenario = "generated" /\ NextGenerated
    \/ scenario = "handlers" /\ NextHandlers
    \/ scenario = "item" /\ NextItem
    \/ scenario = "dropdown" /\ NextDropdown

Spec == Init /\ [][Next]_vars

----------------------------------------------------------------------------
\* Claims.

Toasts == SelectSeq(emitted, LAMBDA e : e.fn \in {"toast.success", "toast.error"})
CallsOf(fn) == SelectSeq(emitted, LAMBDA e : e.fn = fn)

ParentOps == {"mount", "parentSetsMainText", "parentSetsGeneratedPrompt", "parentSetsPromptText"}

C1_Type == [k \in {"/", "#", "$", "@"} |->
               IF k = "/" THEN "all" ELSE IF k = "#" THEN "phase"
               ELSE IF k = "$" THEN "prefix" ELSE "suffix"]

\* C1: a keydown of '/', '#', '$' or '@' with the caret at offset 0 or right
\* after a newline opens the dropdown with type 'all', 'phase', 'prefix' or
\* 'suffix'; at any other caret position it leaves showDropdown, dropdownType
\* and dropdownPosition as they were.
C1_TriggerOnlyAtLineStart ==
    [][ (lastOp'.op = "handleKeyDown" /\ lastOp'.args[1] \in DOMAIN C1_Type) =>
          IF cursor = 0 \/ (cursor > 0 /\ mainText[cursor] = Newline)
          THEN showDropdown' /\ dropdownType' = C1_Type[lastOp'.args[1]]
          ELSE UNCHANGED dropdownState ]_vars

C1_Witness ==
    /\ lastOp.op = "handleKeyDown"
    /\ lastOp.args[1] = "#"
    /\ cursor > 0
    /\ mainText[cursor] = Newline
    /\ showDropdown
    /\ dropdownType = "phase"

\* C2: a keydown of Enter with Ctrl held calls onGenerate exactly once when the
\* prop is given and calls nothing when it is not, wherever the caret is, and
\* leaves showDropdown, dropdownType and dropdownPosition as they were.
C2_CtrlEnterGenerates ==
    [][ (lastOp'.op = "handleKeyDown" /\ lastOp'.args[1] = "Enter" /\ lastOp'.args[2]) =>
          /\ emitted' = IF "onGenerate" \in provided
                        THEN << Call("onGenerate", << >>) >> ELSE << >>
          /\ UNCHANGED dropdownState ]_vars

C2_Witness ==
    /\ lastOp.op = "handleKeyDown"
    /\ lastOp.args[1] = "Enter"
    /\ lastOp.args[2]
    /\ cursor > 0
    /\ mainText[cursor] = Newline
    /\ Len(CallsOf("onGenerate")) = 1
    /\ showDropdown

\* C3: onTidyAndGenerate is called only by a keydown of Enter with Ctrl and T
\* held (the chord Ctrl+T+Enter of the button label).
C3_TidyOnlyOnCtrlTEnter ==
    CallsOf("onTidyAndGenerate") # << >> =>
        /\ lastOp.op = "handleKeyDown"
        /\ lastOp.args = << "Enter", TRUE, TRUE >>

C4_Callback ==
    [h \in RestoreHandlers |->
        IF h = "handleRestorePrefixVersion" THEN "onRestorePrefix"
        ELSE IF h = "handleRestoreSuffixVersion" THEN "onRestoreSuffix"
        ELSE "onRestorePhasePrompt"]

\* C4: a restore requested through PromptBuilder calls the restore callback
\* prop of its kind (onRestorePrefix, onRestoreSuffix, onRestorePhasePrompt),
\* when given, with the fragment's id (after the phase id for a phase prompt)
\* and the chosen history entry.
C4_RestoreCallsRestoreCallback ==
    (lastOp.op \in RestoreHandlers /\ C4_Callback[lastOp.op] \in provided) =>
        LET inv == lastOp.args[1]
        IN  \E i \in DOMAIN emitted :
               /\ emitted[i].fn = C4_Callback[lastOp.op]
               /\ emitted[i].args = IF lastOp.op = "handleRestorePhasePromptVersion"
                                    THEN << inv.phaseId, inv.id, inv.historyEntry >>
                                    ELSE << inv.id, inv.historyEntry >>

C5_Messages ==
    [h \in UpdateHandlers |->
        IF h = "handleUpdatePrefix"
        THEN [persisted |-> "Prefix updated and persisted",
              session |-> "Prefix updated for the current session",
              failed |-> "Failed to update prefix", error |-> "Error updating prefix"]
        ELSE IF h = "handleUpdateSuffix"
        THEN [persisted |-> "Suffix updated and persisted",
              session |-> "Suffix updated for the current session",
              failed |-> "Failed to update suffix", error |-> "Error updating suffix"]
        ELSE [persisted |-> "Phase prompt updated and persisted",
              session |-> "Phase prompt updated for the current session",
              failed |-> "Failed to update phase prompt",
              error |-> "Error updating phase prompt"]]

\* What became of the update handler invocation the last step ran or resumed:
\* "absent" (no callback prop), "threw", "pending", or what its promise settled to.
C5_Case ==
    IF lastOp.op = "settle" THEN lastOp.args[2]
    ELSE IF HandlerCallback(lastOp.op) \notin provided THEN "absent"
    ELSE IF lastOp.args[2] THEN "threw"
    ELSE "pending"

C5_Invocation == lastOp.args[1]

C5_OfUpdateHandler ==
    \/ lastOp.op \in UpdateHandlers
    \/ lastOp.op = "settle" /\ lastOp.args[1].handler \in UpdateHandlers

\* C5: an update handler shows the success toast exactly when its callback is
\* given and resolves to true ('... updated and persisted' with persistChange,
\* '... updated for the current session' without); the 'Failed to update ...'
\* error toast when the callback is absent or resolves to false; the 'Error
\* updating ...' error toast when the callback throws or rejects, and then the
\* exception does not leave the handler.
C5_UpdateToasts ==
    C5_OfUpdateHandler =>
        LET msg == C5_Messages[C5_Invocation.handler]
        IN  /\ C5_Case = "true" =>
                 Toasts = << Call("toast.success",
                                  << IF C5_Invocation.persistChange
                                     THEN msg.persisted ELSE msg.session >>) >>
            /\ C5_Case \in {"absent", "false"} =>
                 Toasts = << Call("toast.error", << msg.failed >>) >>
            /\ C5_Case \in {"threw", "reject"} =>
                 Toasts = << Call("toast.error", << msg.error >>) >>
            /\ C5_Case = "pending" => Toasts = << >>
            /\ CallsOf("toast.success") # << >> <=> C5_Case = "true"
            /\ CallsOf("return") = IF C5_Case = "pending" THEN << >>
                                   ELSE << Call("return", << "fulfilled" >>) >>

C5_Witness ==
    /\ lastOp.op = "settle"
    /\ lastOp.args[1].handler = "handleUpdateSuffix"
    /\ ~lastOp.args[1].persistChange
    /\ lastOp.args[2] = "true"
    /\ Toasts = << Call("toast.success", << "Suffix updated for the current session" >>) >>
    /\ Len(inflight) > 0

\* C6: no operation of PromptBuilder or PromptItem changes the fragment data
\* it got as props (the lists, the phase map, the prompt with its text and
\* its history_log in the order given), nor any other prop: only the parent does.
C6_PropsOnlyChangedByParent ==
    [][ lastOp'.op \notin ParentOps => UNCHANGED << propsData, builderProps >> ]_vars

C6_Witness ==
    /\ lastOp.op = "handleRestoreVersion"
    /\ emitted # << >>
    /\ Len(prompt.history_log) >= 2
    /\ prompt.history_log[1].timestamp < prompt.history_log[2].timestamp
    /\ prompt.text = "edited"

\* C7: whenever the effect has run for the current generatedPrompt,
\* showGenerated is true exactly if generatedPrompt is not null; and only the
\* effect changes showGenerated.
C7_ShowGeneratedTracksPrompt ==
    /\ [](~effectPending => (showGenerated <=> generatedPrompt # Null))
    /\ [][showGenerated' # showGenerated => lastOp'.op = "effect"]_vars

C7_Witness ==
    /\ lastOp.op = "effect"
    /\ generatedPrompt = Some("")
    /\ showGenerated

C9_RowOf(i) ==
    LET log == prompt.history_log
    IN  1 + Cardinality({j \in DOMAIN log : log[j].timestamp > log[i].timestamp})
          + Cardinality({j \in DOMAIN log : j < i /\ log[j].timestamp = log[i].timestamp})

C10_Live(list) == {k \in DOMAIN list : ~list[k].deprecated}
C10_Before(list, k) == Cardinality({j \in C10_Live(list) : j < k})

\* The prompts a phase of phasesConfig contributes: none without a map entry.
C10_PhaseList(q) ==
    IF phasesConfig.phases[q].id \in DOMAIN phasePromptsMap
    THEN phasePromptsMap[phasesConfig.phases[q].id].prompts ELSE << >>

\* How many buttons the first q phases of phasesConfig contribute.
RECURSIVE C10_PhaseCount(_)
C10_PhaseCount(q) ==
    IF q = 0 THEN 0 ELSE C10_PhaseCount(q - 1) + Cardinality(C10_Live(C10_PhaseList(q)))

\* From place `from` on, `items` lists exactly the first `limit` live
\* fragments of `list`, in the order of the list, as buttons of `type`.
C10_Lists(items, from, list, limit, type, phaseId) ==
    \A k \in C10_Live(list) :
        C10_Before(list, k) < limit =>
            /\ from + C10_Before(list, k) + 1 \in DOMAIN items
            /\ items[from + C10_Before(list, k) + 1] =
                   [item |-> list[k], type |-> type, phaseId |-> phaseId]

\* C10: every button of the dropdown is a live (non-deprecated) fragment, in
\* the order of its list: type 'prefix' (resp. 'suffix') lists exactly the live
\* prefixes (suffixes); 'phase' exactly the live prompts of each phase of
\* phasesConfig with an entry in phasePromptsMap; 'all' those phase prompts,
\* then the first min(3, n) live prefixes, then the first min(3, m) live suffixes.
C10_DropdownItems ==
    showDropdown =>
        LET items == DropdownItems(dropdownType)
            prefixes == prefixesData.prefixes
            suffixes == suffixesData.suffixes
            nPhases == Len(phasesConfig.phases)
            phaseTotal == C10_PhaseCount(nPhases)
            n == Cardinality(C10_Live(prefixes))
            m == Cardinality(C10_Live(suffixes))
            phasesListed ==
                \A q \in 1..nPhases :
                    C10_Lists(items, C10_PhaseCount(q - 1), C10_PhaseList(q),
                              Len(C10_PhaseList(q)) + 1, "phase", phasesConfig.phases[q].id)
        IN  /\ \A i \in DOMAIN items : ~items[i].item.deprecated
            /\ dropdownType = "prefix" =>
                  /\ Len(items) = n
                  /\ C10_Lists(items, 0, prefixes, Len(prefixes) + 1, "prefix", "")
            /\ dropdownType = "suffix" =>
                  /\ Len(items) = m
                  /\ C10_Lists(items, 0, suffixes, Len(suffixes) + 1, "suffix", "")
            /\ dropdownType = "phase" =>
                  /\ Len(items) = phaseTotal
                  /\ phasesListed
            /\ dropdownType = "all" =>
                  /\ Len(items) = phaseTotal + Min(3, n) + Min(3, m)
                  /\ phasesListed
                  /\ C10_Lists(items, phaseTotal, prefixes, 3, "prefix", "")
                  /\ C10_Lists(items, phaseTotal + Min(3, n), suffixes, 3, "suffix", "")

C10_Witness ==
    /\ showDropdown
    /\ dropdownType = "all"
    /\ Cardinality(C10_Live(prefixesData.prefixes)) > 3
    /\ Cardinality(C10_Live(suffixesData.suffixes)) < 3
    /\ \E k \in DOMAIN suffixesData.suffixes : suffixesData.suffixes[k].deprecated
    /\ \E q \in DOMAIN phasesConfig.phases : phasesConfig.phases[q].id \notin DOMAIN phasePromptsMap

\* The newlines before the caret, and the place of the last of them (0 if none).
C11_NewlinesBefore == {i \in 1..cursor : mainText[i] = Newline}
C11_LastNewline ==
    IF C11_NewlinesBefore = {} THEN 0
    ELSE CHOOSE i \in C11_NewlinesBefore : \A j \in C11_NewlinesBefore : j <= i

\* C11: a trigger key that opens the dropdown sets dropdownPosition to
\* top = 24 * k + 30 and left = 8 * c + 10, with k the newlines before the
\* caret and c the characters between the last of them (or the start of the
\* text) and the caret; c is 0 there, so left is 10 in every state a trigger
\* led to, and the position is {top: 0, left: 0} only before the first trigger;
\* no other step changes the position.
C11_DropdownPosition ==
    /\ [][ IF /\ lastOp'.op = "handleKeyDown"
              /\ lastOp'.args[1] \in {"/", "#", "$", "@"}
              /\ showDropdown'
              /\ (cursor = 0 \/ (cursor > 0 /\ mainText[cursor] = Newline))
           THEN /\ dropdownPosition' =
                       [top  |-> 24 * Cardinality(C11_NewlinesBefore) + 30,
                        left |-> 8 * (cursor - C11_LastNewline) + 10]
                /\ cursor - C11_LastNewline = 0
           ELSE UNCHANGED dropdownPosition ]_vars
    /\ [](\/ dropdownPosition = [top |-> 0, left |-> 0]
          \/ dropdownPosition.left = 10 /\ dropdownPosition.top >= 30)
    /\ [][dropdownPosition # [top |-> 0, left |-> 0] =>
              dropdownPosition' # [top |-> 0, left |-> 0]]_vars

C11_Witness ==
    /\ lastOp.op = "handleKeyDown"
    /\ lastOp.args[1] = "$"
    /\ showDropdown
    /\ cursor = 2
    /\ mainText[1] = Newline
    /\ mainText[2] = Newline
    /\ dropdownPosition = [top |-> 78, left |-> 10]

C12_RestoreMessages ==
    [h \in RestoreHandlers |->
        IF h = "handleRestorePrefixVersion"
        THEN [success |-> "Restored previous version of prefix",
              failed |-> "Failed to restore prefix version",
              error |-> "Error restoring prefix version"]
        ELSE IF h = "handleRestoreSuffixVersion"
        THEN [success |-> "Restored previous version of suffix",
              failed |-> "Failed to restore suffix version",
              error |-> "Error restoring suffix version"]
        ELSE [success |-> "Restored previous version of phase prompt",
              failed |-> "Failed to restore phase prompt version",
              error |-> "Error restoring phase prompt version"]]

\* The toast of one invocation, from its own handler, its own persistChange
\* and what its own callback settled to.
C12_Toast(inv, outcome) ==
    IF inv.handler \in UpdateHandlers
    THEN LET msg == C5_Messages[inv.handler]
         IN  IF outcome = "true"
             THEN Call("toast.success",
                       << IF inv.persistChange THEN msg.persisted ELSE msg.session >>)
             ELSE IF outcome = "false" THEN Call("toast.error", << msg.failed >>)
             ELSE Call("toast.error", << msg.error >>)
    ELSE LET msg == C12_RestoreMessages[inv.handler]
         IN  IF outcome = "true" THEN Call("toast.success", << msg.success >>)
             ELSE IF outcome = "false" THEN Call("toast.error", << msg.failed >>)
             ELSE Call("toast.error", << msg.error >>)

\* C12: with several update or restore handler invocations in flight, settling
\* in any order, every invocation shows exactly one toast, fixed by its own
\* persistChange and its own callback's outcome: an invocation that suspends
\* shows none yet and joins those in flight; one that settles shows its one
\* toast and leaves, and the others stay in flight as they were; one that ends
\* without suspending shows its one toast at once.
C12_OneToastPerInvocation ==
    [][ /\ lastOp'.op = "settle" =>
            LET i == lastOp'.args[3]
                outcome == lastOp'.args[2]
            IN  /\ i \in DOMAIN inflight
                /\ lastOp'.args[1] = inflight[i]
                /\ Toasts' = << C12_Toast(inflight[i], outcome) >>
                /\ Len(inflight') = Len(inflight) - 1
                /\ \A j \in DOMAIN inflight :
                      /\ j < i => inflight'[j] = inflight[j]
                      /\ j > i => inflight'[j - 1] = inflight[j]
        /\ lastOp'.op \in UpdateHandlers \cup RestoreHandlers =>
            IF HandlerCallback(lastOp'.op) \in provided /\ ~lastOp'.args[2]
            THEN /\ Toasts' = << >>
                 /\ inflight' = Append(inflight, lastOp'.args[1])
            ELSE /\ Toasts' = << C12_Toast(lastOp'.args[1],
                                           IF lastOp'.args[2] THEN "reject" ELSE "false") >>
                 /\ inflight' = inflight
        /\ lastOp'.op \notin UpdateHandlers \cup RestoreHandlers \cup {"settle"} =>
            UNCHANGED inflight ]_vars

C12_Witness ==
    /\ lastOp.op = "settle"
    /\ lastOp.args[3] = 2
    /\ lastOp.args[2] = "true"
    /\ lastOp.args[1].handler = "handleUpdatePrefix"
    /\ ~lastOp.args[1].persistChange
    /\ Len(inflight) = 1
    /\ inflight[1].handler = "handleUpdatePrefix"
    /\ inflight[1].persistChange
    /\ Toasts = << Call("toast.success", << "Prefix updated for the current session" >>) >>

====
